---- MODULE Spec2Model ----
(***************************************************************************)
(* Arithmetization of neural-network layers into halo2 gates:              *)
(*   src/src/another1d.rs      Affine1dConfig  (output = W*input + b)      *)
(*   src/src/cnvrl_generic.rs  Config          (strided, padded 2-D        *)
(*                                              convolution)               *)
(* One behaviour is one circuit build: the layer is configured on a        *)
(* ConstraintSystem and then laid out once on the witness table.           *)
(***************************************************************************)
EXTENDS Integers, Sequences, FiniteSets, Bags, TLC

(***************************************************************************)
(* Bounds of the model.                                                    *)
(***************************************************************************)
MaxIn == 2
MaxOut == 2
MaxAbs == 1
MaxSeed == 1
MaxFail == 4
MaxImage == 2
MaxStride == 2
MaxCalls == 2

\* Kernel sizes, paddings and channel counts of the convolution circuits.
KernelSizes == 1 .. 2

Paddings == 0 .. 1

Channels == 1 .. 2

\* Row offsets a caller passes to assign_parameters and forward.
Offsets == 0 .. 1

(***************************************************************************)
(* The field.  A small prime stands for the pallas base field; every cell  *)
(* value is a residue.                                                     *)
(***************************************************************************)
Modulus == 5

Felt == 0 .. (Modulus - 1)

FAdd(a, b) == (a + b) % Modulus

FMul(a, b) == (a * b) % Modulus

FNeg(a) == (Modulus - a) % Modulus

\* fieldutils::i32tofelt: a non-negative integer maps to itself, a negative
\* one to the additive inverse of its magnitude.
i32tofelt(x) == IF x >= 0 THEN x % Modulus ELSE FNeg((0 - x) % Modulus)

Max(a, b) == IF a >= b THEN a ELSE b

RECURSIVE MaxOver(_, _)
MaxOver(S, f) ==
    IF S = {} THEN 0
    ELSE LET x == CHOOSE y \in S : TRUE
         IN  Max(f[x], MaxOver(S \ {x}, f))

\* Row and column (1-based) of the n-th element of a row-major grid W wide.
RowOf(n, W) == ((n - 1) \div W) + 1

ColOf(n, W) == ((n - 1) % W) + 1

\* tensorutils::map2::<_, _, Y, Z>(f): the Y x Z matrix of f at <<i, j>>.
Indices(Y, Z) == (1 .. Y) \X (1 .. Z)

map2(Y, Z, f) == [i \in 1 .. Y |-> [j \in 1 .. Z |-> f[<<i, j>>]]]

(***************************************************************************)
(* plonk::Expression, as the gates build it.                               *)
(***************************************************************************)
Constant(v) == <<"Constant", v>>

Advice(col, rot) == <<"Advice", col, rot>>

Negated(e) == <<"Negated", e>>

Sum(a, b) == <<"Sum", a, b>>

Product(a, b) == <<"Product", a, b>>

\* The cell a query reads when the gate is evaluated at `row`.
CellAt(w, col, row) == IF <<col, row>> \in DOMAIN w THEN w[<<col, row>>] ELSE 0

RECURSIVE Eval(_, _, _)
Eval(e, row, w) ==
    CASE e[1] = "Constant" -> e[2]
      [] e[1] = "Advice" -> CellAt(w, e[2], row + e[3])
      [] e[1] = "Negated" -> FNeg(Eval(e[2], row, w))
      [] e[1] = "Sum" -> FAdd(Eval(e[2], row, w), Eval(e[3], row, w))
      [] e[1] = "Product" -> FMul(Eval(e[2], row, w), Eval(e[3], row, w))

\* The (column, rotation) pairs an expression queries.
RECURSIVE Queries(_)
Queries(e) ==
    CASE e[1] = "Constant" -> {}
      [] e[1] = "Advice" -> {<<e[2], e[3]>>}
      [] e[1] = "Negated" -> Queries(e[2])
      [] e[1] = "Sum" -> Queries(e[2]) \cup Queries(e[3])
      [] e[1] = "Product" -> Queries(e[2]) \cup Queries(e[3])

(***************************************************************************)
(* State.                                                                  *)
(***************************************************************************)
VARIABLES
    layer,      \* "affine" or "conv": the layer this circuit is built from;
                \* "value": an Affine1d of values, outside any circuit
    dims,       \* the layer's const generics
    args,       \* what the caller hands to layout / assign
    phase,      \* "new", "configured", "rejected", "done"
    cs,         \* ConstraintSystem: columns, equality columns, selectors, gates
    config,     \* the layer's config, <<>> before configure; for "value" the
                \* Affine1d struct itself
    columns,    \* floor planner: column -> first free row
    cells,      \* witness table: <<column, row>> -> field element
    enabled,    \* <<selector, row>> pairs on which a selector is enabled
    copies,     \* equality constraints recorded, in order
    writes,     \* cells written by the layer's call, in order
    result      \* what layout / assign returned

vars == <<layer, dims, args, phase, cs, config, columns, cells, enabled, copies,
          writes, result>>

\* A result: the status, the cell handles returned, and (history) the number
\* of writes the call had made when the backend first returned an error, -1 if
\* it never did.
NoResult == [status |-> "none", out |-> <<>>, at |-> -1]

(***************************************************************************)
(* Test inputs: integer tensors spread over -MaxAbs .. MaxAbs from a seed. *)
(***************************************************************************)
IntOf(n) == (n % (2 * MaxAbs + 1)) - MaxAbs

WeightsOf(seed, rows, cols) ==
    [i \in 1 .. rows |-> [j \in 1 .. cols |-> IntOf(seed + 2 * i + j)]]

BiasesOf(seed, len) == [i \in 1 .. len |-> IntOf(seed + i + 1)]

InputOf(seed, len) == [j \in 1 .. len |-> i32tofelt(IntOf(2 * seed + j))]

\* The tensor shapes a caller may supply: exact, or one dimension off by one.
ShapeDeltas ==
    {<<0, 0, 0>>, <<1, 0, 0>>, <<-1, 0, 0>>, <<0, 1, 0>>, <<0, -1, 0>>,
     <<0, 0, 1>>, <<0, 0, -1>>}

(***************************************************************************)
(* Region layout (the backend's SimpleFloorPlanner): a region starts at    *)
(* the first row free in every column it uses.                             *)
(***************************************************************************)
NextFree(cols, c) == IF c \in DOMAIN cols THEN cols[c] ELSE 0

RegionStart(cols, used) ==
    MaxOver(used, [c \in used |-> NextFree(cols, c)])

Reserve(cols, used, start, rows) ==
    [c \in DOMAIN cols \cup used |->
        IF c \in used THEN start + rows ELSE cols[c]]

\* One cell write: region.assign_advice, or copy_advice (an assignment
\* followed by an equality constraint between the two cells).
AssignOp(col, row, val) ==
    [kind |-> "assign", col |-> col, row |-> row, val |-> val, from |-> <<>>]

CopyOp(from, col, row) ==
    [kind |-> "copy", col |-> col, row |-> row, val |-> from.val,
     from |-> <<from.col, from.row>>]

\* The handle (AssignedCell) a write returns.
CellOf(op) == [col |-> op.col, row |-> op.row, val |-> op.val]

\* The table after `ops`, in order: a cell holds the last value written.
WriteAll(w, ops) ==
    LET key(n) == <<ops[n].col, ops[n].row>>
        keys == {key(n) : n \in 1 .. Len(ops)}
        last(k) == CHOOSE n \in 1 .. Len(ops) :
                       key(n) = k /\ \A m \in (n + 1) .. Len(ops) : key(m) # k
    IN  [k \in DOMAIN w \cup keys |->
            IF k \in keys THEN ops[last(k)].val ELSE w[k]]

CopiesOf(ops) ==
    LET cp == SelectSeq(ops, LAMBDA op : op.kind = "copy")
    IN  [n \in 1 .. Len(cp) |-> <<cp[n].from, <<cp[n].col, cp[n].row>>>>]

\* permutation::Assembly::copy: both columns must have equality enabled.
CopyAllowed(op) ==
    op.kind = "copy" => (op.from[1] \in cs.equality /\ op.col \in cs.equality)

\* The first of `ops` that returns an error: the write the backend fails
\* (attempt number failAt, 0 for none), or an earlier copy between columns
\* outside the permutation.  0 when every write succeeds.
FirstError(ops, failAt) ==
    LET bad == {n \in 1 .. Len(ops) : n = failAt \/ ~CopyAllowed(ops[n])}
    IN  IF bad = {} THEN 0 ELSE CHOOSE n \in bad : \A m \in bad : n <= m

\* The writes that reach the table: a failed assignment writes nothing, a
\* copy refused by the permutation has already written its cell.
Written(ops, failAt) ==
    LET e == FirstError(ops, failAt)
    IN  IF e = 0 THEN ops
        ELSE IF e = failAt THEN SubSeq(ops, 1, e - 1)
        ELSE SubSeq(ops, 1, e)

(***************************************************************************)
(* Affine1dConfig (another1d.rs).                                          *)
(***************************************************************************)
\* Column<Advice> and Selector, by index in the constraint system.
AdviceColumn(n) == <<"advice", n>>

SelectorColumn(q) == <<"selector", q>>

\* n calls of cs.advice_column(), the first returning column `first`.
AdviceColumns(first, n) == [i \in 1 .. n |-> AdviceColumn(first + i - 1)]

\* define_advice: N_IN input and N_OUT output columns with equality enabled,
\* then N_OUT x N_IN weight and N_OUT bias columns without.
define_advice(c, N_IN, N_OUT) ==
    LET base == c.num_advice
        input == AdviceColumns(base, N_IN)
        output == AdviceColumns(base + N_IN, N_OUT)
        weights == map2(N_OUT, N_IN,
                        [p \in Indices(N_OUT, N_IN) |->
                            AdviceColumn(base + N_IN + N_OUT
                                             + (p[1] - 1) * N_IN + (p[2] - 1))])
        biases == AdviceColumns(base + N_IN + N_OUT + N_OUT * N_IN, N_OUT)
    IN  [advice |-> [input |-> input, output |-> output,
                     weights |-> weights, biases |-> biases],
         cs |-> [c EXCEPT !.num_advice = base + N_IN + 2 * N_OUT + N_OUT * N_IN,
                          !.equality = c.equality
                              \cup {input[i] : i \in 1 .. N_IN}
                              \cup {output[i] : i \in 1 .. N_OUT}]]

RECURSIVE AddProducts(_, _, _, _, _)
AddProducts(acc, ws, xs, j, n) ==
    IF j > n THEN acc
    ELSE AddProducts(Sum(acc, Product(ws[j], xs[j])), ws, xs, j + 1, n)

\* The gate with the sign of the output query lost.
AffineConstraints_OutputNotNegated(advice, N_IN, N_OUT) ==
    [i \in 1 .. N_OUT |->
        Sum(AddProducts(Advice(advice.output[i], 0),
                        [j \in 1 .. N_IN |-> Advice(advice.weights[i][j], 0)],
                        [j \in 1 .. N_IN |-> Advice(advice.input[j], 0)], 1, N_IN),
            Advice(advice.biases[i], 0))]

\* The constraint tensor of the "affine" gate.
AffineConstraints(advice, N_IN, N_OUT) ==
    LET input == [j \in 1 .. N_IN |-> Advice(advice.input[j], 0)]
        output == [i \in 1 .. N_OUT |-> Advice(advice.output[i], 0)]
        biases == [i \in 1 .. N_OUT |-> Advice(advice.biases[i], 0)]
        weights == map2(N_OUT, N_IN,
                        [p \in Indices(N_OUT, N_IN) |->
                            Advice(advice.weights[p[1]][p[2]], 0)])
    IN  [i \in 1 .. N_OUT |->
            Sum(AddProducts(Negated(output[i]), weights[i], input, 1, N_IN),
                biases[i])]

\* composable_configure: one selector, one gate.
composable_configure(advice, c, N_IN, N_OUT) ==
    LET qs == c.num_selectors
    IN  [config |-> [advice |-> advice, q |-> qs],
         cs |-> [c EXCEPT !.num_selectors = qs + 1,
                          !.gates = Append(c.gates,
                              [name |-> "affine", selector |-> qs,
                               constraints |->
                                   AffineConstraints(advice, N_IN, N_OUT)])]]

\* assign_parameters panics (index out of bounds) on a tensor that is too
\* small; elements beyond N_OUT x N_IN / N_OUT are never read.
ParametersInBounds(weights, biases, N_IN, N_OUT) ==
    /\ Len(biases) >= N_OUT
    /\ Len(weights) >= N_OUT
    /\ \A i \in 1 .. N_OUT : Len(weights[i]) >= N_IN

\* assign_parameters: bias cells, then weight cells row by row.
AssignParametersOps(cfg, offset, weights, biases, N_IN, N_OUT) ==
    LET b == [i \in 1 .. N_OUT |-> i32tofelt(biases[i])]
        w == map2(N_OUT, N_IN,
                  [p \in Indices(N_OUT, N_IN) |-> i32tofelt(weights[p[1]][p[2]])])
        bops == [i \in 1 .. N_OUT |-> AssignOp(cfg.advice.biases[i], offset, b[i])]
        wops == [n \in 1 .. N_OUT * N_IN |->
                    LET i == ((n - 1) \div N_IN) + 1
                        j == ((n - 1) % N_IN) + 1
                    IN  AssignOp(cfg.advice.weights[i][j], offset, w[i][j])]
    IN  bops \o wops

\* The Parameters handles assign_parameters returns.
ParametersOf(pops, N_IN, N_OUT) ==
    [biases |-> [i \in 1 .. N_OUT |-> CellOf(pops[i])],
     weights |-> map2(N_OUT, N_IN,
                     [p \in Indices(N_OUT, N_IN) |->
                         CellOf(pops[N_OUT + (p[1] - 1) * N_IN + p[2]])])]

RECURSIVE Dot(_, _, _, _, _)
Dot(acc, ws, xs, j, n) ==
    IF j > n THEN acc
    ELSE Dot(FAdd(acc, FMul(ws[j].val, xs[j].val)), ws, xs, j + 1, n)

\* forward with the bias left out of the sum.
ForwardValues_NoBias(input, params, N_IN, N_OUT) ==
    [i \in 1 .. N_OUT |-> Dot(0, params.weights[i], input, 1, N_IN)]

\* forward's output values, from the values held by the cell handles.
ForwardValues(input, params, N_IN, N_OUT) ==
    [i \in 1 .. N_OUT |->
        FAdd(Dot(0, params.weights[i], input, 1, N_IN), params.biases[i].val)]

\* forward: copy the input cells, then assign the output cells.
ForwardOps(cfg, offset, input, params, N_IN, N_OUT) ==
    LET cops == [j \in 1 .. N_IN |-> CopyOp(input[j], cfg.advice.input[j], offset)]
        output == ForwardValues(input, params, N_IN, N_OUT)
        oops == [i \in 1 .. N_OUT |->
                    AssignOp(cfg.advice.output[i], offset, output[i])]
    IN  cops \o oops

\* layout enabling the selector one row below its cells.
AffineSelectorRows_NextRow(cfg, row) == {<<cfg.q, row + 1>>}

\* layout without the call that enables the selector.
AffineSelectorRows_None(cfg, row) == {}

\* layout: self.q.enable(&mut region, offset).
AffineSelectorRows(cfg, row) == {<<cfg.q, row>>}

\* Every column the layer's region touches (the selector is a column of the
\* region's shape too).
AffineRegionColumns(cfg, N_IN, N_OUT) ==
    {SelectorColumn(cfg.q)}
        \cup {cfg.advice.input[j] : j \in 1 .. N_IN}
        \cup {cfg.advice.output[i] : i \in 1 .. N_OUT}
        \cup {cfg.advice.biases[i] : i \in 1 .. N_OUT}
        \cup {cfg.advice.weights[i][j] : i \in 1 .. N_OUT, j \in 1 .. N_IN}

(***************************************************************************)
(* Affine1d<F, Value<Assigned<F>>, IN, OUT> (another1d.rs): the layer as    *)
(* values.  An unknown Value is <<>>.                                       *)
(***************************************************************************)
\* from_parameters: encoded biases and weights, input and output unknown.
from_parameters(weights, biases, N_IN, N_OUT) ==
    [input |-> [j \in 1 .. N_IN |-> <<>>],
     output |-> [i \in 1 .. N_OUT |-> <<>>],
     weights |-> map2(N_OUT, N_IN,
                      [p \in Indices(N_OUT, N_IN) |-> i32tofelt(weights[p[1]][p[2]])]),
     biases |-> [i \in 1 .. N_OUT |-> i32tofelt(biases[i])]]

RECURSIVE Accumulate(_, _, _, _, _)
Accumulate(acc, ws, xs, j, n) ==
    IF j > n THEN acc
    ELSE Accumulate(FAdd(acc, FMul(ws[j], xs[j])), ws, xs, j + 1, n)

\* forward with the bias never added.
forward_NoBias(self, input, N_IN, N_OUT) ==
    LET output == [i \in 1 .. N_OUT |-> Accumulate(0, self.weights[i], input, 1, N_IN)]
    IN  [self |-> [self EXCEPT !.input = input, !.output = output],
         output |-> output]

\* Affine1d::forward: stores the input, computes and stores the output, and
\* returns it.
forward(self, input, N_IN, N_OUT) ==
    LET output == [i \in 1 .. N_OUT |->
                      FAdd(Accumulate(0, self.weights[i], input, 1, N_IN),
                           self.biases[i])]
    IN  [self |-> [self EXCEPT !.input = input, !.output = output],
         output |-> output]

(***************************************************************************)
(* Convolution Config (cnvrl_generic.rs).                                  *)
(***************************************************************************)
\* The output size with the stride left out, as MyCircuit::configure counts
\* its advice columns.
OutputSize_Unstrided(image, kernel, padding, stride) ==
    image + 2 * padding - kernel + 1

\* The const expression (IMAGE + 2 * PADDING - KERNEL) / STRIDE + 1.
OutputSize(image, kernel, padding, stride) ==
    (image + 2 * padding - kernel) \div stride + 1

output_height(d) == OutputSize(d.IMAGE_HEIGHT, d.KERNEL_HEIGHT, d.PADDING, d.STRIDE)

output_width(d) == OutputSize(d.IMAGE_WIDTH, d.KERNEL_WIDTH, d.PADDING, d.STRIDE)

\* Wrapping subtraction in place of the checked const evaluation: only the
\* array lengths are left to the type checker.
WellFormed_SizeUnchecked(d, a) ==
    /\ Len(a.image) = d.IN_CHANNELS
    /\ \A o \in 1 .. Len(a.kernels) : Len(a.kernels[o]) = d.IN_CHANNELS

\* The where-clauses of Config: each const expression must evaluate (usize
\* subtraction may not underflow), and the image and kernel arrays handed to
\* assign must both have IN_CHANNELS elements.
WellFormed(d, a) ==
    /\ d.IMAGE_HEIGHT + 2 * d.PADDING >= d.KERNEL_HEIGHT
    /\ d.IMAGE_WIDTH + 2 * d.PADDING >= d.KERNEL_WIDTH
    /\ Len(a.image) = d.IN_CHANNELS
    /\ \A o \in 1 .. Len(a.kernels) : Len(a.kernels[o]) = d.IN_CHANNELS

\* MyCircuit::configure: the advice columns handed to Config::configure.
NumAdvices(d) ==
    Max((d.IMAGE_HEIGHT + 2 * d.PADDING - d.KERNEL_HEIGHT + 1)
            * (d.IMAGE_WIDTH + 2 * d.PADDING - d.KERNEL_WIDTH + 1),
        d.IMAGE_HEIGHT * d.IMAGE_WIDTH)

\* image::ImageConfig::configure: an H x W grid over the first H * W of the
\* columns it is given, row by row.
ImageConfig(advices, H, W) ==
    [r \in 1 .. H |-> [c \in 1 .. W |-> advices[(r - 1) * W + c]]]

\* kernel::KernelConfig::configure: a grid of H x W columns of its own.
KernelColumn(n) == <<"kernel", n>>

KernelConfig(H, W) ==
    [r \in 1 .. H |-> [c \in 1 .. W |-> KernelColumn((r - 1) * W + c - 1)]]

\* ImageConfig::query / KernelConfig::query: every column at one rotation.
QueryGrid(grid, rot) ==
    [r \in 1 .. Len(grid) |-> [c \in 1 .. Len(grid[r]) |-> Advice(grid[r][c], rot)]]

\* The arithmetic util::convolution and util::op are generic over: field
\* values when assigning, expressions when building the gate.
Zero(mode) == IF mode = "expr" THEN Constant(0) ELSE 0

Add(mode, a, b) == IF mode = "expr" THEN Sum(a, b) ELSE FAdd(a, b)

Mul(mode, a, b) == IF mode = "expr" THEN Product(a, b) ELSE FMul(a, b)

Sub(mode, a, b) == IF mode = "expr" THEN Sum(a, Negated(b)) ELSE FAdd(a, FNeg(b))

\* The padded image at (r, c), 0-based: zero outside the image.
Padded(mode, image, d, r, c) ==
    IF /\ r >= d.PADDING /\ r < d.PADDING + d.IMAGE_HEIGHT
       /\ c >= d.PADDING /\ c < d.PADDING + d.IMAGE_WIDTH
    THEN image[r - d.PADDING + 1][c - d.PADDING + 1]
    ELSE Zero(mode)

RECURSIVE Taps(_, _, _, _, _, _, _, _)
Taps(mode, acc, kernel, image, d, r, c, n) ==
    IF n >= d.KERNEL_HEIGHT * d.KERNEL_WIDTH THEN acc
    ELSE LET kr == n \div d.KERNEL_WIDTH
             kc == n % d.KERNEL_WIDTH
         IN  Taps(mode,
                  Add(mode, acc,
                      Mul(mode, kernel[kr + 1][kc + 1],
                          Padded(mode, image, d, r * d.STRIDE + kr,
                                 c * d.STRIDE + kc))),
                  kernel, image, d, r, c, n + 1)

\* util::convolution: the correlation of kernel and zero-padded image, one
\* output per stride step.
convolution(mode, kernel, image, d) ==
    [r \in 1 .. output_height(d) |-> [c \in 1 .. output_width(d) |->
        Taps(mode, Zero(mode), kernel, image, d, r - 1, c - 1, 0)]]

\* util::op(list, f): element-wise fold of a list of equal-sized images.
RECURSIVE FoldAt(_, _, _, _, _)
FoldAt(mode, list, r, c, n) ==
    IF n = 1 THEN list[1][r][c]
    ELSE Add(mode, FoldAt(mode, list, r, c, n - 1), list[n][r][c])

op(mode, list, n, H, W) ==
    [r \in 1 .. H |-> [c \in 1 .. W |-> FoldAt(mode, list, r, c, n)]]

\* util::op_pair(a, b, |a, b| a - b).flatten()
FlattenDifference(mode, a, b, H, W) ==
        [n \in 1 .. H * W |->
            Sub(mode, a[RowOf(n, W)][ColOf(n, W)],
                b[RowOf(n, W)][ColOf(n, W)])]

\* The constraints of the "convolution" gate: image and kernel of channel c
\* at rotation c, the witnessed output at rotation IN_CHANNELS.
ConvolutionConstraints(cfg, d) ==
    LET intermediate_outputs ==
            [ch \in 1 .. d.IN_CHANNELS |->
                convolution("expr", QueryGrid(cfg.kernel, ch - 1),
                            QueryGrid(cfg.image, ch - 1), d)]
        witnessed_output == QueryGrid(cfg.output, d.IN_CHANNELS)
        expected_output == op("expr", intermediate_outputs, d.IN_CHANNELS,
                              output_height(d), output_width(d))
    IN  FlattenDifference("expr", witnessed_output, expected_output,
                          output_height(d), output_width(d))

\* Config::configure on the advice columns MyCircuit::configure allocated.
ConvConfigureResult(c, d) ==
    LET advices == AdviceColumns(c.num_advice, NumAdvices(d))
        cfg == [selector |-> c.num_selectors,
                kernel |-> KernelConfig(d.KERNEL_HEIGHT, d.KERNEL_WIDTH),
                image |-> ImageConfig(advices, d.IMAGE_HEIGHT, d.IMAGE_WIDTH),
                output |-> ImageConfig(advices, output_height(d), output_width(d))]
    IN  [config |-> cfg,
         cs |-> [c EXCEPT !.num_advice = c.num_advice + NumAdvices(d),
                          !.num_selectors = c.num_selectors + 1,
                          !.gates = Append(c.gates,
                              [name |-> "convolution", selector |-> cfg.selector,
                               constraints |-> ConvolutionConstraints(cfg, d)])]]

\* assign_image_2d / assign_kernel_2d: one assign_advice per element, row by
\* row, all at the same offset.
AssignGridOps(grid, row, values, H, W) ==
        [n \in 1 .. H * W |->
            AssignOp(grid[RowOf(n, W)][ColOf(n, W)], row,
                     values[RowOf(n, W)][ColOf(n, W)])]

\* The output written at the offset of the first input channel.
OutputOffset_First(d) == 0

\* The row offset assign_filter gives the accumulated output: the offset
\* reached after one increment per input channel.
OutputOffset(d) == d.IN_CHANNELS

\* assign_filter with the offset never incremented in the channel loop.
RECURSIVE ChannelOps_OffsetKept(_, _, _, _, _, _)
ChannelOps_OffsetKept(cfg, start, image, kernel, d, ch) ==
    IF ch > d.IN_CHANNELS THEN <<>>
    ELSE AssignGridOps(cfg.image, start, image[ch],
                       d.IMAGE_HEIGHT, d.IMAGE_WIDTH)
             \o AssignGridOps(cfg.kernel, start, kernel[ch],
                              d.KERNEL_HEIGHT, d.KERNEL_WIDTH)
             \o ChannelOps_OffsetKept(cfg, start, image, kernel, d, ch + 1)

\* assign_filter's writes: per input channel the image then the kernel at
\* offset c, then the accumulated output.
RECURSIVE ChannelOps(_, _, _, _, _, _)
ChannelOps(cfg, start, image, kernel, d, ch) ==
    IF ch > d.IN_CHANNELS THEN <<>>
    ELSE AssignGridOps(cfg.image, start + ch - 1, image[ch],
                       d.IMAGE_HEIGHT, d.IMAGE_WIDTH)
             \o AssignGridOps(cfg.kernel, start + ch - 1, kernel[ch],
                              d.KERNEL_HEIGHT, d.KERNEL_WIDTH)
             \o ChannelOps(cfg, start, image, kernel, d, ch + 1)

FilterOutput(image, kernel, d) ==
    op("value",
       [ch \in 1 .. d.IN_CHANNELS |-> convolution("value", kernel[ch], image[ch], d)],
       d.IN_CHANNELS, output_height(d), output_width(d))

AssignFilterOps(cfg, start, image, kernel, d) ==
    ChannelOps(cfg, start, image, kernel, d, 1)
        \o AssignGridOps(cfg.output, start + OutputOffset(d),
                         FilterOutput(image, kernel, d),
                         output_height(d), output_width(d))

\* The image of cell handles assign_filter returns.
OutputCells(cfg, start, image, kernel, d) ==
    LET v == FilterOutput(image, kernel, d)
    IN  [r \in 1 .. output_height(d) |-> [c \in 1 .. output_width(d) |->
            [col |-> cfg.output[r][c], row |-> start + OutputOffset(d),
             val |-> v[r][c]]]]

ConvRegionColumns(cfg) ==
    {SelectorColumn(cfg.selector)}
        \cup {cfg.image[r][c] : r \in 1 .. Len(cfg.image), c \in 1 .. Len(cfg.image[1])}
        \cup {cfg.kernel[r][c] : r \in 1 .. Len(cfg.kernel), c \in 1 .. Len(cfg.kernel[1])}
        \cup {cfg.output[r][c] : r \in 1 .. Len(cfg.output), c \in 1 .. Len(cfg.output[1])}

\* Whether assign goes on to the next filter after filter `o` returned `r`:
\* the results are collected into a Vec before the first error is taken.
ContinueAfter(r) == TRUE

\* Config::assign: assign_filter for each output channel in turn, each in a
\* region of IN_CHANNELS + 1 rows.  `attempts` counts the writes attempted so
\* far; the backend fails attempt number failAt.
RECURSIVE AssignFilters(_, _, _, _, _, _, _, _)
AssignFilters(cfg, image, kernels, d, o, cols, attempts, failAt) ==
    IF o > d.OUT_CHANNELS THEN <<>>
    ELSE LET used == ConvRegionColumns(cfg)
             start == RegionStart(cols, used)
             reserved == Reserve(cols, used, start, d.IN_CHANNELS + 1)
             ops == AssignFilterOps(cfg, start, image, kernels[o], d)
             local == IF failAt > attempts /\ failAt <= attempts + Len(ops)
                      THEN failAt - attempts ELSE 0
             done == Written(ops, local)
             r == [status |-> IF local = 0 THEN "Ok" ELSE "Err",
                   start |-> start,
                   columns |-> reserved,
                   writes |-> done,
                   out |-> IF local = 0
                           THEN OutputCells(cfg, start, image, kernels[o], d)
                           ELSE <<>>]
         IN  IF ContinueAfter(r)
             THEN <<r>> \o AssignFilters(cfg, image, kernels, d, o + 1, reserved,
                                         attempts + Len(done)
                                             + (IF local = 0 THEN 0 ELSE 1),
                                         failAt)
             ELSE <<r>>

RECURSIVE Concat(_, _)
Concat(rs, n) == IF n = 0 THEN <<>> ELSE Concat(rs, n - 1) \o rs[n].writes

\* collect::<Result<Vec<_>, _>>(): the first error, or every output image.
Collect(rs) ==
    LET errs == {n \in 1 .. Len(rs) : rs[n].status = "Err"}
    IN  IF errs # {}
        THEN [status |-> "Err", out |-> <<>>,
              at |-> Len(Concat(rs, CHOOSE n \in errs : \A m \in errs : n <= m))]
        ELSE [status |-> "Ok", out |-> [n \in 1 .. Len(rs) |-> rs[n].out],
              at |-> -1]

(***************************************************************************)
(* Initial states.                                                         *)
(***************************************************************************)
\* An affine layer B fed by an upstream layer A, whose N_IN output columns
\* (equality enabled) are already part of the constraint system.
AffineInit ==
    \E N_IN \in 1 .. MaxIn, N_OUT \in 1 .. MaxOut, seed \in 0 .. MaxSeed,
       d \in ShapeDeltas :
        /\ layer = "affine"
        /\ dims = [N_IN |-> N_IN, N_OUT |-> N_OUT]
        /\ args = [weights |-> WeightsOf(seed, N_OUT + d[1], N_IN + d[2]),
                   biases |-> BiasesOf(seed, N_OUT + d[3]),
                   upstream |-> InputOf(seed, N_IN),
                   input |-> <<>>,
                   region |-> -1, params |-> <<>>, calls |-> 0]
        /\ cs = [num_advice |-> N_IN,
                 equality |-> {AdviceColumn(c) : c \in 0 .. (N_IN - 1)},
                 num_selectors |-> 0, gates |-> <<>>]

\* Field-element images and kernels, as the test draws them.
PixelOf(seed, ch, r, c) == (seed + ch + 2 * r + 3 * c) % Modulus

TapOf(seed, o, ch, r, c) == (2 * seed + o + 3 * ch + r + 2 * c) % Modulus

\* A convolution circuit: the const generics, an image of IN_CHANNELS
\* channels and, per output channel, a list of kernels.
ConvInit ==
    \E KH \in KernelSizes, KW \in KernelSizes,
       IH \in 1 .. MaxImage, IW \in 1 .. MaxImage,
       PADDING \in Paddings, STRIDE \in 1 .. MaxStride,
       IN_CH \in Channels, OUT_CH \in Channels,
       seed \in 0 .. MaxSeed :
    \E kch \in {IN_CH, (IN_CH % Cardinality(Channels)) + 1} :
        /\ layer = "conv"
        /\ dims = [KERNEL_HEIGHT |-> KH, KERNEL_WIDTH |-> KW,
                   OUT_CHANNELS |-> OUT_CH, STRIDE |-> STRIDE,
                   IMAGE_HEIGHT |-> IH, IMAGE_WIDTH |-> IW,
                   IN_CHANNELS |-> IN_CH, PADDING |-> PADDING]
        /\ args = [image |-> [ch \in 1 .. IN_CH |-> [r \in 1 .. IH |->
                                 [c \in 1 .. IW |-> PixelOf(seed, ch, r, c)]]],
                   kernels |-> [o \in 1 .. OUT_CH |-> [ch \in 1 .. kch |->
                                   [r \in 1 .. KH |-> [c \in 1 .. KW |->
                                       TapOf(seed, o, ch, r, c)]]]]]
        /\ cs = [num_advice |-> 0, equality |-> {}, num_selectors |-> 0,
                 gates |-> <<>>]

\* A value layer about to be built from integer tensors.
ValueInit ==
    \E N_IN \in 1 .. MaxIn, N_OUT \in 1 .. MaxOut, seed \in 0 .. MaxSeed,
       d \in ShapeDeltas :
        /\ layer = "value"
        /\ dims = [N_IN |-> N_IN, N_OUT |-> N_OUT]
        /\ args = [weights |-> WeightsOf(seed, N_OUT + d[1], N_IN + d[2]),
                   biases |-> BiasesOf(seed, N_OUT + d[3]),
                   input |-> <<>>, calls |-> 0]
        /\ cs = [num_advice |-> 0, equality |-> {}, num_selectors |-> 0,
                 gates |-> <<>>]

Init ==
    /\ (AffineInit \/ ConvInit \/ ValueInit)
    /\ phase = "new"
    /\ config = <<>>
    /\ columns = <<>>
    /\ cells = <<>>
    /\ enabled = {}
    /\ copies = <<>>
    /\ writes = <<>>
    /\ result = NoResult

(***************************************************************************)
(* Actions.                                                                *)
(***************************************************************************)
\* Affine1dConfig::configure: fresh advice for every tensor.
AffineConfigure ==
    /\ layer = "affine"
    /\ phase = "new"
    /\ LET a == define_advice(cs, dims.N_IN, dims.N_OUT)
           r == composable_configure(a.advice, a.cs, dims.N_IN, dims.N_OUT)
       IN  /\ cs' = r.cs
           /\ config' = r.config @@ [wiring |-> "copy"]
    /\ phase' = "configured"
    /\ UNCHANGED <<layer, dims, args, columns, cells, enabled, copies, writes,
                   result>>

\* Affine1dConfig::configure_with_input: the upstream layer's output columns
\* replace the freshly defined input columns.
AffineConfigureWithInput ==
    /\ layer = "affine"
    /\ phase = "new"
    /\ LET a == define_advice(cs, dims.N_IN, dims.N_OUT)
           advice == [a.advice EXCEPT !.input = AdviceColumns(0, dims.N_IN)]
           r == composable_configure(advice, a.cs, dims.N_IN, dims.N_OUT)
       IN  /\ cs' = r.cs
           /\ config' = r.config @@ [wiring |-> "reuse"]
    /\ phase' = "configured"
    /\ UNCHANGED <<layer, dims, args, columns, cells, enabled, copies, writes,
                   result>>

\* The upstream layer lays out its output cells in a region of its own.
UpstreamLayout ==
    /\ layer = "affine"
    /\ phase = "configured"
    /\ args.input = <<>>
    /\ LET used == {AdviceColumn(c) : c \in 0 .. (dims.N_IN - 1)}
           start == RegionStart(columns, used)
           ops == [j \in 1 .. dims.N_IN |->
                      AssignOp(AdviceColumn(j - 1), start, args.upstream[j])]
       IN  /\ columns' = Reserve(columns, used, start, 1)
           /\ cells' = WriteAll(cells, ops)
           /\ args' = [args EXCEPT !.input = [j \in 1 .. dims.N_IN |-> CellOf(ops[j])]]
    /\ UNCHANGED <<layer, dims, phase, cs, config, enabled, copies, writes,
                   result>>

\* Affine1dConfig::layout: one region; enable the selector at offset 0,
\* assign the parameters, run forward.  The backend may fail one write.
AffineLayout ==
    /\ layer = "affine"
    /\ phase = "configured"
    /\ args.input # <<>>
    /\ phase' = "done"
    /\ IF ~ParametersInBounds(args.weights, args.biases, dims.N_IN, dims.N_OUT)
       THEN /\ result' = [status |-> "panic", out |-> <<>>, at |-> -1]
            /\ UNCHANGED <<columns, cells, enabled, copies, writes>>
       ELSE \E failAt \in 0 .. MaxFail :
            LET used == AffineRegionColumns(config, dims.N_IN, dims.N_OUT)
                start == RegionStart(columns, used)
                offset == 0
                pops == AssignParametersOps(config, start + offset, args.weights,
                                            args.biases, dims.N_IN, dims.N_OUT)
                params == ParametersOf(pops, dims.N_IN, dims.N_OUT)
                fops == ForwardOps(config, start + offset, args.input, params,
                                   dims.N_IN, dims.N_OUT)
                ops == pops \o fops
                done == Written(ops, failAt)
            IN  /\ columns' = Reserve(columns, used, start, 1)
                /\ enabled' = enabled \cup AffineSelectorRows(config, start + offset)
                /\ cells' = WriteAll(cells, done)
                /\ writes' = writes \o done
                /\ copies' = copies \o CopiesOf(done)
                /\ result' =
                       IF FirstError(ops, failAt) = 0
                       THEN [status |-> "Ok",
                             out |-> [i \in 1 .. dims.N_OUT |->
                                         CellOf(fops[dims.N_IN + i])],
                             at |-> -1]
                       ELSE [status |-> "Err", out |-> <<>>, at |-> Len(done)]
    /\ UNCHANGED <<layer, dims, args, cs, config>>

\* A caller's own region: assign_parameters once, at an offset of its choice.
\* The region starts at the first row free in every column of the layer.
AssignParameters ==
    /\ layer = "affine"
    /\ phase = "configured"
    /\ args.input # <<>>
    /\ IF ~ParametersInBounds(args.weights, args.biases, dims.N_IN, dims.N_OUT)
       THEN /\ phase' = "done"
            /\ result' = [status |-> "panic", out |-> <<>>, at |-> -1]
            /\ UNCHANGED <<args, columns, cells, writes>>
       ELSE \E offset \in Offsets, failAt \in 0 .. MaxFail :
            LET used == AffineRegionColumns(config, dims.N_IN, dims.N_OUT)
                start == RegionStart(columns, used)
                pops == AssignParametersOps(config, start + offset, args.weights,
                                            args.biases, dims.N_IN, dims.N_OUT)
                done == Written(pops, failAt)
                ok == FirstError(pops, failAt) = 0
            IN  /\ columns' = Reserve(columns, used, start, offset + 1)
                /\ cells' = WriteAll(cells, done)
                /\ writes' = writes \o done
                /\ phase' = IF ok THEN "region" ELSE "done"
                /\ args' = IF ok
                           THEN [args EXCEPT
                                    !.region = start,
                                    !.params = ParametersOf(pops, dims.N_IN, dims.N_OUT)]
                           ELSE args
                /\ result' = IF ok THEN result
                             ELSE [status |-> "Err", out |-> <<>>, at |-> Len(done)]
    /\ UNCHANGED <<layer, dims, cs, config, enabled, copies>>

\* forward in that region, with the parameters assigned before, at an offset
\* of the caller's choice.
Forward ==
    /\ layer = "affine"
    /\ phase = "region"
    /\ args.calls < MaxCalls
    /\ \E offset \in Offsets, failAt \in 0 .. MaxFail :
        LET row == args.region + offset
            fops == ForwardOps(config, row, args.input, args.params,
                               dims.N_IN, dims.N_OUT)
            done == Written(fops, failAt)
            ok == FirstError(fops, failAt) = 0
        IN  /\ columns' = [c \in DOMAIN columns |->
                               IF c \in AffineRegionColumns(config, dims.N_IN, dims.N_OUT)
                               THEN Max(columns[c], row + 1) ELSE columns[c]]
            /\ cells' = WriteAll(cells, done)
            /\ writes' = writes \o done
            /\ copies' = copies \o CopiesOf(done)
            /\ phase' = IF ok THEN "region" ELSE "done"
            /\ args' = [args EXCEPT !.calls = @ + 1]
            /\ result' =
                   IF ok
                   THEN [status |-> "Returned",
                         out |-> [i \in 1 .. dims.N_OUT |->
                                     CellOf(fops[dims.N_IN + i])],
                         at |-> -1]
                   ELSE [status |-> "Err", out |-> <<>>, at |-> Len(writes) + Len(done)]
    /\ UNCHANGED <<layer, dims, cs, config, enabled>>

\* Affine1d::from_parameters; indexing a tensor that is too small panics.
FromParameters ==
    /\ layer = "value"
    /\ phase = "new"
    /\ IF ParametersInBounds(args.weights, args.biases, dims.N_IN, dims.N_OUT)
       THEN /\ config' = from_parameters(args.weights, args.biases,
                                         dims.N_IN, dims.N_OUT)
            /\ phase' = "built"
            /\ result' = result
       ELSE /\ config' = config
            /\ phase' = "done"
            /\ result' = [status |-> "panic", out |-> <<>>, at |-> -1]
    /\ UNCHANGED <<layer, dims, args, cs, columns, cells, enabled, copies, writes>>

\* Affine1d::forward on an input of N_IN values or one more or fewer; self.input
\* is stored before input[j] is indexed, so a short input panics after it.
LayerForward ==
    /\ layer = "value"
    /\ phase = "built"
    /\ args.calls < MaxCalls
    /\ \E seed \in 0 .. MaxSeed, len \in (dims.N_IN - 1) .. (dims.N_IN + 1) :
        LET input == InputOf(seed, len)
        IN  /\ args' = [args EXCEPT !.input = input, !.calls = @ + 1]
            /\ IF len >= dims.N_IN
               THEN LET r == forward(config, input, dims.N_IN, dims.N_OUT)
                    IN  /\ config' = r.self
                        /\ phase' = phase
                        /\ result' = [status |-> "Returned", out |-> r.output,
                                      at |-> -1]
               ELSE /\ config' = [config EXCEPT !.input = input]
                    /\ phase' = "done"
                    /\ result' = [status |-> "panic", out |-> <<>>, at |-> -1]
    /\ UNCHANGED <<layer, dims, cs, columns, cells, enabled, copies, writes>>

\* MyCircuit::configure and Config::configure.  A parameter set whose
\* where-clauses do not hold is rejected when the Config is instantiated.
ConvConfigure ==
    /\ layer = "conv"
    /\ phase = "new"
    /\ IF WellFormed(dims, args)
       THEN LET r == ConvConfigureResult(cs, dims)
            IN  /\ cs' = r.cs
                /\ config' = r.config
                /\ phase' = "configured"
                /\ result' = result
       ELSE /\ phase' = "rejected"
            /\ result' = [status |-> "rejected", out |-> <<>>, at |-> -1]
            /\ UNCHANGED <<cs, config>>
    /\ UNCHANGED <<layer, dims, args, columns, cells, enabled, copies, writes>>

\* Config::assign: every filter's region, then the collected result.  Each
\* assign_filter enables the selector at offset 0 of its region.
ConvAssign ==
    /\ layer = "conv"
    /\ phase = "configured"
    /\ phase' = "done"
    /\ \E failAt \in 0 .. MaxFail :
        LET rs == AssignFilters(config, args.image, args.kernels, dims, 1,
                                columns, 0, failAt)
            done == Concat(rs, Len(rs))
        IN  /\ columns' = rs[Len(rs)].columns
            /\ enabled' = enabled
                   \cup {<<config.selector, rs[n].start>> : n \in 1 .. Len(rs)}
            /\ cells' = WriteAll(cells, done)
            /\ writes' = writes \o done
            /\ copies' = copies
            /\ result' = Collect(rs)
    /\ UNCHANGED <<layer, dims, args, cs, config>>

Next ==
    \/ ConvConfigure
    \/ ConvAssign
    \/ AffineConfigure
    \/ AffineConfigureWithInput
    \/ UpstreamLayout
    \/ AffineLayout
    \/ AssignParameters
    \/ Forward
    \/ FromParameters
    \/ LayerForward

Spec == Init /\ [][Next]_vars

(***************************************************************************)
(* Polynomials over the queried cells, in canonical form: a function from  *)
(* monomials (bags of <<column, rotation>> queries) to non-zero            *)
(* coefficients.  Two expressions are the same polynomial iff their        *)
(* canonical forms are equal.                                              *)
(***************************************************************************)
RECURSIVE FSum(_, _)
FSum(S, f) ==
    IF S = {} THEN 0
    ELSE LET x == CHOOSE y \in S : TRUE
         IN  FAdd(f[x], FSum(S \ {x}, f))

Coef(p, m) == IF m \in DOMAIN p THEN p[m] ELSE 0

PolyAdd(p, q) ==
    LET D == DOMAIN p \cup DOMAIN q
    IN  [m \in {x \in D : FAdd(Coef(p, x), Coef(q, x)) # 0} |->
            FAdd(Coef(p, m), Coef(q, m))]

PolyMul(p, q) ==
    LET pairs == (DOMAIN p) \X (DOMAIN q)
        prod(pr) == pr[1] (+) pr[2]
        coef(m) == FSum({pr \in pairs : prod(pr) = m},
                        [pr \in pairs |-> FMul(p[pr[1]], q[pr[2]])])
    IN  [m \in {x \in {prod(pr) : pr \in pairs} : coef(x) # 0} |-> coef(m)]

RECURSIVE PolyOf(_)
PolyOf(e) ==
    CASE e[1] = "Constant" ->
             [m \in (IF e[2] = 0 THEN {} ELSE {EmptyBag}) |-> e[2]]
      [] e[1] = "Advice" -> [m \in {SetToBag({<<e[2], e[3]>>})} |-> 1]
      [] e[1] = "Negated" ->
             LET p == PolyOf(e[2]) IN [m \in DOMAIN p |-> FNeg(p[m])]
      [] e[1] = "Sum" -> PolyAdd(PolyOf(e[2]), PolyOf(e[3]))
      [] e[1] = "Product" -> PolyMul(PolyOf(e[2]), PolyOf(e[3]))

\* The monomial that multiplies the cells of `cols` in the current row.
Mono(cols) == SetToBag({<<c, 0>> : c \in cols})

(***************************************************************************)
(* Affine layer.                                                           *)
(***************************************************************************)
\* -output[i] + sum_j weights[i][j] * input[j] + biases[i], every cell read
\* in the current row.
AffinePolynomial(i) ==
    LET a == config.advice
        out == Mono({a.output[i]})
        terms == {Mono({a.weights[i][j], a.input[j]}) : j \in 1 .. dims.N_IN}
                     \cup {Mono({a.biases[i]})}
    IN  [m \in {out} \cup terms |-> IF m = out THEN Modulus - 1 ELSE 1]

\* C1: configuring an affine layer registers exactly one gate, guarded by
\* exactly one selector, with N_OUT constraints; constraint i is the polynomial
\* -output[i] + sum_j weights[i][j] * input[j] + biases[i] over cells of the
\* current row.
C1_AffineGate ==
    (layer = "affine" /\ phase \in {"configured", "done"}) =>
        /\ Len(cs.gates) = 1
        /\ cs.num_selectors = 1
        /\ cs.gates[1].selector = config.q
        /\ Len(cs.gates[1].constraints) = dims.N_OUT
        /\ \A i \in 1 .. dims.N_OUT :
               PolyOf(cs.gates[1].constraints[i]) = AffinePolynomial(i)

C1_Witness ==
    /\ layer = "affine"
    /\ phase = "configured"
    /\ dims.N_IN = 2
    /\ dims.N_OUT = 2
    /\ Len(cs.gates) = 1
    /\ Cardinality(DOMAIN PolyOf(cs.gates[1].constraints[2])) = 4

\* The region row of the affine layer: the row its returned cells are in.
AffineRow == result.out[1].row

\* C2: when an affine layout succeeds, the bias and weight cells are assigned,
\* the input cells hold the input values, output cell i holds
\* sum_j weights[i][j] * input[j] + biases[i] over the values in those cells,
\* the selector is enabled on row 0 of the region and every constraint of the
\* gate evaluates to zero there.
C2_AffineLayout ==
    (layer = "affine" /\ result.status = "Ok") =>
        LET a == config.advice
            row == AffineRow
            cell(col) == CellAt(cells, col, row)
        IN  /\ <<config.q, row>> \in enabled
            /\ \A i \in 1 .. dims.N_OUT :
                   /\ <<a.output[i], row>> \in DOMAIN cells
                   /\ result.out[i] = [col |-> a.output[i], row |-> row,
                                       val |-> cell(a.output[i])]
                   /\ <<a.biases[i], row>> \in DOMAIN cells
                   /\ \A j \in 1 .. dims.N_IN :
                          /\ <<a.weights[i][j], row>> \in DOMAIN cells
                          /\ cell(a.input[j]) = args.input[j].val
                   /\ cell(a.output[i]) =
                          FAdd(FSum(1 .. dims.N_IN,
                                    [j \in 1 .. dims.N_IN |->
                                        FMul(cell(a.weights[i][j]), cell(a.input[j]))]),
                               cell(a.biases[i]))
            /\ \A k \in 1 .. Len(cs.gates[1].constraints) :
                   Eval(cs.gates[1].constraints[k], row, cells) = 0

C2_Witness ==
    /\ layer = "affine"
    /\ result.status = "Ok"
    /\ dims.N_IN = 2
    /\ dims.N_OUT = 2
    /\ \E i \in 1 .. 2 : result.out[i].val # 0
    /\ \E i \in 1 .. 2 : CellAt(cells, config.advice.biases[i], AffineRow) # 0

\* The cells a successful layout / assign returned as the layer's output.
OutputHandles ==
    IF layer = "affine"
    THEN {result.out[i] : i \in 1 .. Len(result.out)}
    ELSE UNION {UNION {{result.out[o][r][c] : c \in 1 .. Len(result.out[o][r])} :
                           r \in 1 .. Len(result.out[o])} :
                    o \in 1 .. Len(result.out)}

\* The row on which the gate that reads an output cell is enabled: row 0 of
\* the cell's region.
GateRowOf(h) == IF layer = "affine" THEN h.row ELSE h.row - dims.IN_CHANNELS

SelectorOf == IF layer = "affine" THEN config.q ELSE config.selector

\* C3: after a successful layout (affine or convolution), changing the value
\* of any single output cell to any other field element makes at least one
\* constraint of the gate enabled on that cell's region evaluate to non-zero.
C3_OutputCellsBound ==
    result.status = "Ok" =>
        \A h \in OutputHandles : \A v \in Felt \ {h.val} :
            LET w == [cells EXCEPT ![<<h.col, h.row>>] = v]
                row == GateRowOf(h)
            IN  /\ <<h.col, h.row>> \in DOMAIN cells
                /\ <<SelectorOf, row>> \in enabled
                /\ \E k \in 1 .. Len(cs.gates[1].constraints) :
                       Eval(cs.gates[1].constraints[k], row, w) # 0

C3_Witness ==
    /\ layer = "conv"
    /\ result.status = "Ok"
    /\ dims.OUT_CHANNELS = 2
    /\ dims.IN_CHANNELS = 2
    /\ Cardinality(OutputHandles) >= 8

(***************************************************************************)
(* Convolution layer.                                                      *)
(***************************************************************************)
\* Output (r, c) of filter o, 1-based: every kernel tap times the image pixel
\* under it, the kernel's corner at (r - 1, c - 1) * STRIDE of the image
\* padded with PADDING zeros on each side, summed over the input channels.
Correlation(o, r, c) ==
    LET taps == (1 .. dims.IN_CHANNELS) \X (1 .. dims.KERNEL_HEIGHT)
                    \X (1 .. dims.KERNEL_WIDTH)
        ir(t) == (r - 1) * dims.STRIDE + t[2] - dims.PADDING
        ic(t) == (c - 1) * dims.STRIDE + t[3] - dims.PADDING
    IN  FSum(taps,
             [t \in taps |->
                 IF ir(t) \in 1 .. dims.IMAGE_HEIGHT /\ ic(t) \in 1 .. dims.IMAGE_WIDTH
                 THEN FMul(args.kernels[o][t[1]][t[2]][t[3]],
                           args.image[t[1]][ir(t)][ic(t)])
                 ELSE 0])

\* C4: when a convolution assign succeeds it returns one image per output
\* channel; each returned cell is an output column's cell holding the sum over
\* input channels of the convolution of that channel's kernel and image, the
\* selector is enabled once per output channel, and every constraint of the
\* gate evaluates to zero on every enabled row.
C4_ConvolutionAssign ==
    (layer = "conv" /\ result.status = "Ok") =>
        /\ Len(result.out) = dims.OUT_CHANNELS
        /\ \A o \in 1 .. Len(result.out) :
           \A r \in 1 .. Len(result.out[o]) :
           \A c \in 1 .. Len(result.out[o][r]) :
               LET h == result.out[o][r][c]
               IN  /\ h.col = config.output[r][c]
                   /\ <<h.col, h.row>> \in DOMAIN cells
                   /\ cells[<<h.col, h.row>>] = h.val
                   /\ h.val = Correlation(o, r, c)
        /\ Cardinality(enabled) = dims.OUT_CHANNELS
        /\ \A e \in enabled :
               /\ e[1] = config.selector
               /\ \A ch \in 1 .. dims.IN_CHANNELS :
                  \A r \in 1 .. dims.IMAGE_HEIGHT : \A c \in 1 .. dims.IMAGE_WIDTH :
                      CellAt(cells, config.image[r][c], e[2] + ch - 1)
                          = args.image[ch][r][c]
               /\ \A k \in 1 .. Len(cs.gates[1].constraints) :
                      Eval(cs.gates[1].constraints[k], e[2], cells) = 0

C4_Witness ==
    /\ layer = "conv"
    /\ result.status = "Ok"
    /\ dims.IN_CHANNELS = 2
    /\ dims.OUT_CHANNELS = 2
    /\ dims.PADDING = 1
    /\ dims.STRIDE = 2
    /\ dims.KERNEL_HEIGHT = 2
    /\ \E h \in OutputHandles : h.val # 0

\* The number of positions a kernel takes along one axis of the padded image
\* when it moves `stride` pixels at a time and must stay inside.
Placements(image, kernel, padding, stride) ==
    Cardinality({t \in 0 .. (image + 2 * padding) :
                    t * stride + kernel <= image + 2 * padding})

\* C8: the output of a convolution is floor((IMAGE + 2 * PADDING - KERNEL) /
\* STRIDE) + 1 cells along each axis, the number of kernel placements; the
\* configured output grid, the gate's constraints and the images assign returns
\* all have that size.
C8_OutputSize ==
    (layer = "conv" /\ phase \in {"configured", "done"}) =>
        LET H == (dims.IMAGE_HEIGHT + 2 * dims.PADDING - dims.KERNEL_HEIGHT)
                     \div dims.STRIDE + 1
            W == (dims.IMAGE_WIDTH + 2 * dims.PADDING - dims.KERNEL_WIDTH)
                     \div dims.STRIDE + 1
        IN  /\ H = Placements(dims.IMAGE_HEIGHT, dims.KERNEL_HEIGHT,
                              dims.PADDING, dims.STRIDE)
            /\ W = Placements(dims.IMAGE_WIDTH, dims.KERNEL_WIDTH,
                              dims.PADDING, dims.STRIDE)
            /\ Len(config.output) = H
            /\ \A r \in 1 .. Len(config.output) : Len(config.output[r]) = W
            /\ Len(cs.gates[1].constraints) = H * W
            /\ result.status = "Ok" =>
                   \A o \in 1 .. Len(result.out) :
                       /\ Len(result.out[o]) = H
                       /\ \A r \in 1 .. Len(result.out[o]) :
                              Len(result.out[o][r]) = W

C8_Witness ==
    /\ layer = "conv"
    /\ result.status = "Ok"
    /\ dims.STRIDE = 2
    /\ dims.IMAGE_HEIGHT + 2 * dims.PADDING - dims.KERNEL_HEIGHT = 3
    /\ Len(result.out[1]) = 2

\* A parameter set the convolution cannot be built from.
Malformed ==
    \/ Len(args.image) # dims.IN_CHANNELS
    \/ \E o \in 1 .. Len(args.kernels) : Len(args.kernels[o]) # dims.IN_CHANNELS
    \/ dims.IMAGE_HEIGHT + 2 * dims.PADDING < dims.KERNEL_HEIGHT
    \/ dims.IMAGE_WIDTH + 2 * dims.PADDING < dims.KERNEL_WIDTH

\* C9: a convolution whose kernel and image channel counts differ, or whose
\* padded image is smaller than the kernel, is rejected when it is configured:
\* no config exists, nothing is enabled and no cell is ever written.
C9_MalformedRejected ==
    (layer = "conv" /\ Malformed) =>
        /\ phase \in {"new", "rejected"}
        /\ phase = "rejected" => result.status = "rejected"
        /\ config = <<>>
        /\ cs.gates = <<>>
        /\ enabled = {}
        /\ cells = <<>>
        /\ writes = <<>>

C9_Witness ==
    /\ layer = "conv"
    /\ phase = "rejected"
    /\ dims.IMAGE_HEIGHT + 2 * dims.PADDING < dims.KERNEL_HEIGHT
    /\ \A o \in 1 .. Len(args.kernels) : Len(args.kernels[o]) = dims.IN_CHANNELS

(***************************************************************************)
(* Statements of the specification the code does not satisfy.              *)
(***************************************************************************)
ShapeMismatch ==
    \/ Len(args.biases) # dims.N_OUT
    \/ Len(args.weights) # dims.N_OUT
    \/ \E i \in 1 .. Len(args.weights) : Len(args.weights[i]) # dims.N_IN

\* C5: an affine layer handed a weight or bias tensor whose shape differs
\* from N_OUT x N_IN / N_OUT never completes a layout: no result is Ok and no
\* cell is written from the tensors.
C5_ShapeMismatchFails ==
    (layer = "affine" /\ ShapeMismatch) =>
        /\ result.status # "Ok"
        /\ writes = <<>>

\* C6: both wirings of an affine layer to its upstream produce the same
\* outputs, and they differ in the equality constraints recorded: none when
\* the upstream columns are reused, N_IN when the inputs are copied.
C6_WiringConstraints ==
    (layer = "affine" /\ result.status = "Ok") =>
        /\ \A i \in 1 .. dims.N_OUT :
               result.out[i].val =
                   FAdd(FSum(1 .. dims.N_IN,
                             [j \in 1 .. dims.N_IN |->
                                 FMul(i32tofelt(args.weights[i][j]),
                                      args.upstream[j])]),
                        i32tofelt(args.biases[i]))
        /\ Len(copies) = IF config.wiring = "reuse" THEN 0 ELSE dims.N_IN

\* C7: the parameter cells assign_parameters returned hold the encoded
\* weights and biases and can be the source of an equality copy: their columns
\* are in the permutation.
C7_ParameterHandlesCopyable ==
    (layer = "affine" /\ result.status = "Ok") =>
        \A i \in 1 .. dims.N_OUT :
            /\ CellAt(cells, config.advice.biases[i], AffineRow)
                   = i32tofelt(args.biases[i])
            /\ config.advice.biases[i] \in cs.equality
            /\ \A j \in 1 .. dims.N_IN :
                   /\ CellAt(cells, config.advice.weights[i][j], AffineRow)
                          = i32tofelt(args.weights[i][j])
                   /\ config.advice.weights[i][j] \in cs.equality

\* C10: once the backend has failed a write, the layout returns that error
\* and writes no further cell, later output channels included.
C10_FailureTerminal ==
    result.at >= 0 =>
        /\ result.status = "Err"
        /\ Len(writes) = result.at

(***************************************************************************)
(* Row offsets, write order and selector placement.                        *)
(***************************************************************************)
\* The number of cells one input channel takes (image then kernel), and one
\* whole filter.
ChannelCells ==
    dims.IMAGE_HEIGHT * dims.IMAGE_WIDTH + dims.KERNEL_HEIGHT * dims.KERNEL_WIDTH

FilterCells == dims.IN_CHANNELS * ChannelCells + Len(cs.gates[1].constraints)

\* Row 0 of the region of filter o, from the cells assign returned.
FilterRow(o) == result.out[o][1][1].row - dims.IN_CHANNELS

\* The n-th write (1-based) of filter o.
FilterWrite(o, n) == writes[(o - 1) * FilterCells + n]

\* The step of assign_filter that makes its n-th write: input channel
\* 0 .. IN_CHANNELS - 1, or IN_CHANNELS for the accumulated output.
StepOf(n) ==
    IF n <= dims.IN_CHANNELS * ChannelCells
    THEN (n - 1) \div ChannelCells
    ELSE dims.IN_CHANNELS

\* The queries of every constraint of the one gate.
GateQueries ==
    UNION {Queries(cs.gates[1].constraints[k]) :
               k \in 1 .. Len(cs.gates[1].constraints)}

\* C11: in every filter's region the image and then the kernel of input
\* channel c are written at row offset c, channel after channel, and the
\* accumulated output afterwards at row offset IN_CHANNELS; the gate enabled on
\* row 0 queries kernel columns only at rotations 0 .. IN_CHANNELS - 1 and
\* advice columns at rotations 0 .. IN_CHANNELS, and each queried cell is the
\* one written for that channel (rotation c) or for the output (rotation
\* IN_CHANNELS).
C11_RowOffsets ==
    (layer = "conv" /\ result.status = "Ok") =>
        /\ Len(writes) = dims.OUT_CHANNELS * FilterCells
        /\ \A o \in 1 .. dims.OUT_CHANNELS :
            LET s == FilterRow(o)
                img == dims.IMAGE_HEIGHT * dims.IMAGE_WIDTH
            IN  /\ <<config.selector, s>> \in enabled
                /\ \A n \in 1 .. FilterCells :
                    LET w == FilterWrite(o, n)
                        ch == StepOf(n)
                        m == ((n - 1) % ChannelCells) + 1
                    IN  IF ch < dims.IN_CHANNELS
                        THEN /\ w.row = s + ch
                             /\ IF m <= img
                                THEN /\ w.col = config.image[RowOf(m, dims.IMAGE_WIDTH)]
                                                             [ColOf(m, dims.IMAGE_WIDTH)]
                                     /\ w.val = args.image[ch + 1]
                                                     [RowOf(m, dims.IMAGE_WIDTH)]
                                                     [ColOf(m, dims.IMAGE_WIDTH)]
                                ELSE /\ w.col = config.kernel
                                                     [RowOf(m - img, dims.KERNEL_WIDTH)]
                                                     [ColOf(m - img, dims.KERNEL_WIDTH)]
                                     /\ w.val = args.kernels[o][ch + 1]
                                                     [RowOf(m - img, dims.KERNEL_WIDTH)]
                                                     [ColOf(m - img, dims.KERNEL_WIDTH)]
                        ELSE /\ w.row = s + dims.IN_CHANNELS
                             /\ \E r \in 1 .. Len(config.output) :
                                \E c \in 1 .. Len(config.output[r]) :
                                    /\ w.col = config.output[r][c]
                                    /\ CellOf(w) = result.out[o][r][c]
                /\ \A q \in GateQueries :
                       /\ q[2] \in 0 .. dims.IN_CHANNELS
                       /\ q[1][1] = "kernel" => q[2] < dims.IN_CHANNELS
                       /\ \E n \in 1 .. FilterCells :
                              /\ FilterWrite(o, n).col = q[1]
                              /\ FilterWrite(o, n).row = s + q[2]
                              /\ StepOf(n) = q[2]

C11_Witness ==
    /\ layer = "conv"
    /\ result.status = "Ok"
    /\ dims.IN_CHANNELS = 2
    /\ dims.OUT_CHANNELS = 2
    /\ dims.PADDING = 1
    /\ \E q \in GateQueries : q[1][1] = "kernel" /\ q[2] = 1
    /\ FilterWrite(2, FilterCells).row = FilterRow(2) + 2

\* The columns forward may write: the layer's input and output columns.
ForwardColumns ==
    {config.advice.input[j] : j \in 1 .. dims.N_IN}
        \cup {config.advice.output[i] : i \in 1 .. dims.N_OUT}

\* The number of cells assign_parameters writes.
ParameterCells == dims.N_OUT + dims.N_OUT * dims.N_IN

AsCells(values) == [n \in 1 .. Len(values) |-> [val |-> values[n]]]

\* C13: after any sequence of Affine1d::forward calls on a layer built by
\* from_parameters, weights and biases are the encoded tensors it was built
\* from, self.input is the last input, self.output is the value the last call
\* returned, output[i] = sum_j weights[i][j] * input[j] + biases[i], and that
\* is the value Affine1dConfig::forward computes from cells holding the same
\* weights, biases and input.
C13_LayerForward ==
    (layer = "value" /\ phase \in {"built", "done"} /\ config # <<>>) =>
        /\ \A i \in 1 .. dims.N_OUT :
               /\ config.biases[i] = i32tofelt(args.biases[i])
               /\ \A j \in 1 .. dims.N_IN :
                      config.weights[i][j] = i32tofelt(args.weights[i][j])
        /\ Len(config.weights) = dims.N_OUT
        /\ Len(config.biases) = dims.N_OUT
        /\ args.calls > 0 => config.input = args.input
        /\ result.status = "Returned" =>
               /\ config.output = result.out
               /\ Len(result.out) = dims.N_OUT
               /\ \A i \in 1 .. dims.N_OUT :
                      result.out[i] =
                          FAdd(FSum(1 .. dims.N_IN,
                                    [j \in 1 .. dims.N_IN |->
                                        FMul(config.weights[i][j], args.input[j])]),
                               config.biases[i])
               /\ result.out =
                      ForwardValues(AsCells(args.input),
                                    [weights |-> [i \in 1 .. dims.N_OUT |->
                                                     AsCells(config.weights[i])],
                                     biases |-> AsCells(config.biases)],
                                    dims.N_IN, dims.N_OUT)

C13_Witness ==
    /\ layer = "value"
    /\ result.status = "Returned"
    /\ args.calls = 2
    /\ dims.N_IN = 2
    /\ dims.N_OUT = 2
    /\ Len(args.input) = 3
    /\ \E i \in 1 .. 2 : config.biases[i] # 0 /\ result.out[i] # config.biases[i]

(***************************************************************************)
(* Selector placement.                                                     *)
(***************************************************************************)
\* Row 0 of each region the call laid out: the affine region is the one row
\* below the next free row of the selector's column; the regions of the
\* convolution filters follow each other from row 0, IN_CHANNELS + 1 rows
\* each.
RegionRows ==
    IF layer = "affine"
    THEN {columns[SelectorColumn(config.q)] - 1}
    ELSE {(o - 1) * (dims.IN_CHANNELS + 1) : o \in 1 .. dims.OUT_CHANNELS}

\* The cells the layer's call wrote.
WrittenCells == {<<writes[n].col, writes[n].row>> : n \in 1 .. Len(writes)}

\* C14: when layout or assign completes without error, the selector is enabled
\* on row 0 of each region it laid out and on no other row, and every cell the
\* gate queries from an enabled row was written by that call.
C14_SelectorPlacement ==
    (layer \in {"affine", "conv"} /\ result.status = "Ok") =>
        /\ enabled = {<<SelectorOf, r>> : r \in RegionRows}
        /\ GateQueries # {}
        /\ \A e \in enabled : \A q \in GateQueries :
               /\ q[2] >= 0
               /\ <<q[1], e[2] + q[2]>> \in WrittenCells
               /\ <<q[1], e[2] + q[2]>> \in DOMAIN cells

C14_Witness ==
    /\ layer = "affine"
    /\ result.status = "Ok"
    /\ config.wiring = "reuse"
    /\ dims.N_IN = 2
    /\ dims.N_OUT = 2
    /\ enabled = {<<config.q, 1>>}
    /\ Cardinality(GateQueries) = 10

====
